---- MODULE Spec2Model ----
(***************************************************************************)
(* A model of SmartChatbot (src/m.py): the chat loop and its bounded       *)
(* conversation history, the search-need classifier (should_search), the   *)
(* web search client (search_web), the streaming generator and the         *)
(* response clean-up (generate_response).                                  *)
(*                                                                         *)
(* A Python str is a sequence of one-character strings, so that strip,     *)
(* lower, upper, startswith, endswith, "in", split and slicing are         *)
(* computed the way Python computes them.                                  *)
(*                                                                         *)
(* The module holds one specification per component:                       *)
(*   Spec         the chat loop (chat)                                     *)
(*   SpecClassify one call of should_search, token by token                *)
(*   SpecGenerate one call of generate_response, token by token            *)
(*   SpecClean    the response clean-up applied twice to a text            *)
(*   SpecSearch   one call of search_web                                   *)
(***************************************************************************)
EXTENDS Naturals, Integers, Sequences, FiniteSets, TLC

VARIABLES
    \* chat(): the loop position, self.conversation and the loop's locals
    pc, conversation, line, user_input, needs_search, response,
    \* history variables: the turns completed since the last 'clear', and the
    \* number of turns the last 'clear' removed
    log, dropped,
    \* one turn of chat() in detail: the locals of generate_response and the
    \* history of the steps the turn has taken
    context, search_info, prompt, steps, faults,
    \* should_search(): position, arguments, locals and result
    c_pc, c_input, c_tokens, c_i, c_ret, c_raised, c_failed,
    \* generate_response(): position, locals and result; g_raw is the history
    \* of the tokens taken from generate
    g_pc, g_tokens, g_raw, g_stop, g_ret, g_failed,
    \* the clean-up of generate_response applied to a text, twice
    s_pc, s_x, s_once, s_twice,
    \* search_web(): position, the HTTP exchange and the result
    w_pc, w_http, w_ret, w_raised

chatVars ==
    <<pc, conversation, line, user_input, needs_search, response, log, dropped>>
clsVars == <<c_pc, c_input, c_tokens, c_i, c_ret, c_raised, c_failed>>
genVars == <<g_pc, g_tokens, g_raw, g_stop, g_ret, g_failed>>
sanVars == <<s_pc, s_x, s_once, s_twice>>
webVars == <<w_pc, w_http, w_ret, w_raised>>
turnVars == <<context, search_info, prompt, steps, faults>>
vars == <<chatVars, turnVars, clsVars, genVars, sanVars, webVars>>

(***************************************************************************)
(* Python str operations                                                   *)
(***************************************************************************)
NL == "\n"

UpperLetters ==
    <<"A", "B", "C", "D", "E", "F", "G", "H", "I", "J", "K", "L", "M",
      "N", "O", "P", "Q", "R", "S", "T", "U", "V", "W", "X", "Y", "Z">>

LowerLetters ==
    <<"a", "b", "c", "d", "e", "f", "g", "h", "i", "j", "k", "l", "m",
      "n", "o", "p", "q", "r", "s", "t", "u", "v", "w", "x", "y", "z">>

LowerChar(c) ==
    IF \E k \in 1..26 : UpperLetters[k] = c
    THEN LowerLetters[CHOOSE k \in 1..26 : UpperLetters[k] = c]
    ELSE c

UpperChar(c) ==
    IF \E k \in 1..26 : LowerLetters[k] = c
    THEN UpperLetters[CHOOSE k \in 1..26 : LowerLetters[k] = c]
    ELSE c

\* str.lower()
Lower(t) == [k \in 1..Len(t) |-> LowerChar(t[k])]

\* str.upper()
Upper(t) == [k \in 1..Len(t) |-> UpperChar(t[k])]

IsSpace(c) == c \in {" ", NL, "\t", "\r"}

\* str.strip(): the text between the first and the last non-whitespace character
Strip(t) ==
    CHOOSE r \in
        { IF \A k \in 1..Len(x) : IsSpace(x[k]) THEN <<>>
          ELSE SubSeq(x,
                      CHOOSE lo \in 1..Len(x) :
                          /\ ~IsSpace(x[lo])
                          /\ \A j \in 1..(lo - 1) : IsSpace(x[j]),
                      CHOOSE hi \in 1..Len(x) :
                          /\ ~IsSpace(x[hi])
                          /\ \A j \in (hi + 1)..Len(x) : IsSpace(x[j]))
          : x \in {t} } : TRUE

\* str.startswith(p)
StartsWith(t, p) == Len(p) <= Len(t) /\ SubSeq(t, 1, Len(p)) = p

\* str.endswith(p)
EndsWith(t, p) ==
    Len(p) <= Len(t) /\ SubSeq(t, Len(t) - Len(p) + 1, Len(t)) = p

\* the offsets (1-based) at which p occurs in t
Occurrences(t, p) ==
    {k \in 1..(Len(t) - Len(p) + 1) : SubSeq(t, k, k + Len(p) - 1) = p}

\* p in t
Contains(t, p) == Occurrences(t, p) # {}

\* t.split(p)[0]: the text before the first occurrence of p (all of t if none)
SplitFirst(t, p) ==
    IF ~Contains(t, p) THEN t
    ELSE LET k == CHOOSE j \in Occurrences(t, p) :
                      \A m \in Occurrences(t, p) : j <= m
         IN  SubSeq(t, 1, k - 1)

\* t[n:]
DropFirst(t, n) == SubSeq(t, n + 1, Len(t))

\* t[:n]
TakeFirst(t, n) == SubSeq(t, 1, IF n < Len(t) THEN n ELSE Len(t))

\* t[:-n] for n > 0
DropLast(t, n) == SubSeq(t, 1, Len(t) - n)

\* xs[-n:] for n > 0: the last n elements, all of xs when it is shorter
LastN(xs, n) ==
    IF Len(xs) <= n THEN xs ELSE SubSeq(xs, Len(xs) - n + 1, Len(xs))

RECURSIVE Join(_, _)
\* sep.join(parts)
Join(parts, sep) ==
    IF Len(parts) = 0 THEN <<>>
    ELSE IF Len(parts) = 1 THEN parts[1]
    ELSE parts[1] \o sep \o Join(Tail(parts), sep)

(***************************************************************************)
(* The conversation history and the chat loop                              *)
(***************************************************************************)
max_history == 6

Preamble ==
    <<"Y", "o", "u", " ", "a", "r", "e", " ", "a", " ", "h", "e", "l", "p", "f", "u", "l", " ", "A", "I", " ", "a", "s", "s", "i", "s", "t", "a", "n", "t", ".", " ", "R", "e", "s", "p", "o", "n", "d", " ", "n", "a", "t", "u", "r", "a", "l", "l", "y", " ", "a", "n", "d", " ", "c", "o", "n", "v", "e", "r", "s", "a", "t", "i", "o", "n", "a", "l", "l", "y", ".", NL>>

RecentHeader ==
    <<"R", "e", "c", "e", "n", "t", " ", "c", "o", "n", "v", "e", "r", "s", "a", "t", "i", "o", "n", ":">>

UserLabel == <<"U", "s", "e", "r", ":", " ">>

AssistantLabel == <<"A", "s", "s", "i", "s", "t", "a", "n", "t", ":", " ">>

\* self.conversation[-self.max_history:], the turns the context builder renders
Recent(conv) == LastN(conv, max_history)

RECURSIVE ContextParts(_)
\* the two lines appended to context_parts for each exchange
ContextParts(turns) ==
    IF Len(turns) = 0 THEN <<>>
    ELSE <<UserLabel \o Strip(turns[1].user),
           AssistantLabel \o Strip(turns[1].bot)>>
         \o ContextParts(Tail(turns))

_build_context(conv) ==
    IF conv = <<>> THEN Preamble
    ELSE Join(<<RecentHeader>> \o ContextParts(Recent(conv)) \o << <<>> >>,
              <<NL>>)

\* bound of the model: turns started between two 'clear' commands
MaxTurns == 7

T_clear == <<"c", "l", "e", "a", "r">>
T_quit == <<"q", "u", "i", "t">>
T_exit == <<"e", "x", "i", "t">>
T_hi == <<"h", "i">>
T_now == <<"n", "o", "w">>

\* what input("You: ") can return
Lines ==
    { T_clear,
      <<" ", "C", "L", "E", "A", "R", " ">>,
      <<"C", "l", "e", "a", "r", "\t">>,
      <<>>,
      <<" ", " ">>,
      T_quit,
      <<"E", "x", "i", "t", " ">>,
      T_hi,
      <<" ", "h", "i", " ">>,
      T_now }

\* what generate_response can return to the loop
Responses == { <<"o", "k">> }

IdleTurn ==
    /\ context = <<>>
    /\ search_info = <<>>
    /\ prompt = <<>>
    /\ steps = <<>>
    /\ faults = {}

IdleChat ==
    /\ pc = "idle"
    /\ IdleTurn
    /\ conversation = <<>>
    /\ line = <<>>
    /\ user_input = <<>>
    /\ needs_search = FALSE
    /\ response = <<>>
    /\ log = <<>>
    /\ dropped = 0

IdleClassify ==
    /\ c_pc = "idle"
    /\ c_input = <<>>
    /\ c_tokens = <<>>
    /\ c_i = 0
    /\ c_ret = <<>>
    /\ c_raised = FALSE
    /\ c_failed = "none"

IdleGenerate ==
    /\ g_pc = "idle"
    /\ g_tokens = <<>>
    /\ g_raw = <<>>
    /\ g_stop = FALSE
    /\ g_ret = <<>>
    /\ g_failed = FALSE

IdleClean ==
    /\ s_pc = "idle"
    /\ s_x = <<>>
    /\ s_once = <<>>
    /\ s_twice = <<>>

IdleSearch ==
    /\ w_pc = "idle"
    /\ w_http = [kind |-> "none"]
    /\ w_ret = <<>>
    /\ w_raised = FALSE

\* SmartChatbot.__init__ followed by the entry of chat()
Init ==
    /\ pc = "read"
    /\ conversation = <<>>
    /\ line = <<>>
    /\ user_input = <<>>
    /\ needs_search = FALSE
    /\ response = <<>>
    /\ log = <<>>
    /\ dropped = 0
    /\ IdleTurn
    /\ IdleClassify /\ IdleGenerate /\ IdleClean /\ IdleSearch

notChat == <<turnVars, clsVars, genVars, sanVars, webVars>>

\* a comparison with 'quit' and 'exit' that forgets lower()
IsQuit_case_sensitive(text) == text \in {T_quit, T_exit}

\* user_input.lower() in ['quit', 'exit']
IsQuit(text) == Lower(text) \in {T_quit, T_exit}

\* a comparison that forgets lower()
IsClear_case_sensitive(text) == text = T_clear

\* user_input.lower() == 'clear'
IsClear(text) == Lower(text) = T_clear

\* user_input = input("You: ").strip(), then 'quit' / 'exit': break
ReadQuit ==
    /\ pc = "read"
    /\ \E l \in Lines :
        /\ IsQuit(Strip(l))
        /\ line' = l
        /\ user_input' = Strip(l)
    /\ pc' = "done"
    /\ UNCHANGED <<conversation, needs_search, response, log, dropped, notChat>>

\* 'clear': self.conversation = []; continue
ReadClear ==
    /\ pc = "read"
    /\ \E l \in Lines :
        /\ ~IsQuit(Strip(l))
        /\ IsClear(Strip(l))
        /\ line' = l
        /\ user_input' = Strip(l)
    /\ conversation' = <<>>
    /\ log' = <<>>
    /\ dropped' = Len(conversation)
    /\ pc' = "read"
    /\ UNCHANGED <<needs_search, response, notChat>>

\* blank input: continue
ReadBlank ==
    /\ pc = "read"
    /\ \E l \in Lines :
        /\ ~IsQuit(Strip(l))
        /\ ~IsClear(Strip(l))
        /\ Strip(l) = <<>>
        /\ line' = l
        /\ user_input' = Strip(l)
    /\ pc' = "read"
    /\ UNCHANGED <<conversation, needs_search, response, log, dropped, notChat>>

\* any other input starts a turn
ReadTurn ==
    /\ pc = "read"
    /\ Len(log) < MaxTurns
    /\ \E l \in Lines :
        /\ ~IsQuit(Strip(l))
        /\ ~IsClear(Strip(l))
        /\ Strip(l) # <<>>
        /\ line' = l
        /\ user_input' = Strip(l)
    /\ pc' = "classify"
    /\ dropped' = 0
    /\ UNCHANGED <<conversation, needs_search, response, log, notChat>>

\* context = self._build_context(); needs_search = self.should_search(...)
Classify ==
    /\ pc = "classify"
    /\ \E b \in BOOLEAN : needs_search' = b
    /\ pc' = "generate"
    /\ UNCHANGED <<conversation, line, user_input, response, log, dropped, notChat>>

\* response = self.generate_response(user_input, needs_search)
Generate ==
    /\ pc = "generate"
    /\ \E r \in Responses : response' = r
    /\ pc' = "append"
    /\ UNCHANGED <<conversation, line, user_input, needs_search, log, dropped,
                   notChat>>

Turn(u, b) == [user |-> u, bot |-> b]

\* self.conversation.append({'user': user_input, 'bot': response})
AppendTurn ==
    /\ pc = "append"
    /\ conversation' = Append(conversation, Turn(user_input, response))
    /\ log' = Append(log, Turn(user_input, response))
    /\ pc' = "trim"
    /\ UNCHANGED <<line, user_input, needs_search, response, dropped, notChat>>

\* a trim that never cuts
Trimmed_keeps_all(conv) == conv

\* a trim that keeps the oldest turns, conversation[:max_history]
Trimmed_keeps_oldest(conv) == TakeFirst(conv, max_history)

\* the history after "if len(...) > max_history: conversation[-max_history:]"
Trimmed(conv) ==
    IF Len(conv) > max_history THEN LastN(conv, max_history) ELSE conv

\* if len(self.conversation) > self.max_history: keep the last max_history;
\* the loop then returns to input(), its locals dead until assigned again
TrimHistory ==
    /\ pc = "trim"
    /\ conversation' = Trimmed(conversation)
    /\ pc' = "read"
    /\ needs_search' = FALSE
    /\ response' = <<>>
    /\ UNCHANGED <<line, user_input, log, dropped, notChat>>

\* except KeyboardInterrupt: break
Interrupt ==
    /\ pc \in {"read", "classify", "generate", "append", "trim"}
    /\ pc' = "done"
    /\ UNCHANGED <<conversation, line, user_input, needs_search, response, log,
                   dropped, notChat>>

Next ==
    \/ ReadQuit
    \/ ReadClear
    \/ ReadBlank
    \/ ReadTurn
    \/ Classify
    \/ Generate
    \/ AppendTurn
    \/ TrimHistory
    \/ Interrupt

Spec == Init /\ [][Next]_vars

(***************************************************************************)
(* Properties of the chat loop, checked under Spec                         *)
(***************************************************************************)
\* the loop is between two statements that leave the history as the next
\* input, context build or turn finds it
Settled == pc \in {"read", "classify", "generate", "append"}

\* C1: whenever the chat loop waits for input or works on a turn, the
\* history holds at most max_history turns.
C1_HistoryBounded == Settled => Len(conversation) <= max_history

\* a seventh turn has completed and the history is back at max_history
C1_Witness ==
    pc = "read" /\ Len(log) > max_history /\ Len(conversation) = max_history

Min(a, b) == IF a < b THEN a ELSE b

\* the last min(k, max_history) of the k turns completed since the last clear
LastCompleted ==
    LET k == Len(log)
        n == Min(k, max_history)
    IN  [j \in 1..n |-> log[k - n + j]]

\* C2: the history is, in order and unmodified, the last min(k, max_history)
\* turns completed since the last 'clear', and the context builder renders
\* exactly those turns.
C2_HistoryIsLastTurns ==
    /\ Recent(conversation) = LastCompleted
    /\ Settled => conversation = LastCompleted

\* more than max_history turns completed, the evicted one unlike the newest
C2_Witness ==
    /\ pc = "read"
    /\ Len(log) = max_history + 1
    /\ log[1].user = T_hi
    /\ log[2].user = T_now
    /\ conversation[1].user = T_now
    /\ conversation[max_history].user = T_hi

\* the spellings of 'clear' that input() returns in this model
ClearLines ==
    { <<"c", "l", "e", "a", "r">>,
      <<" ", "C", "L", "E", "A", "R", " ">>,
      <<"C", "l", "e", "a", "r", "\t">> }

\* C3: once a line spelling 'clear' in any letter case, with any surrounding
\* whitespace, has been handled, the history is empty and the context built
\* next is the empty-history preamble.
C3_ClearEmptiesHistory ==
    (pc = "read" /\ line \in ClearLines) =>
        /\ conversation = <<>>
        /\ _build_context(conversation) = Preamble

\* an upper-case, padded 'clear' has removed a full history
C3_Witness ==
    /\ pc = "read"
    /\ line = <<" ", "C", "L", "E", "A", "R", " ">>
    /\ dropped = max_history
    /\ conversation = <<>>

(***************************************************************************)
(* should_search: the search-need classifier                               *)
(***************************************************************************)
\* the "Safety limit" of the classification loop, "if i > 20"
ClassifyLimit == 20

\* bound of the model: tokens of the stream chosen freely from the
\* vocabulary; the stream then repeats Filler until it ends
MaxPrefix == 2

YES == <<"Y", "E", "S">>
NO == <<"N", "O">>

time_indicators ==
    <<<<"d", "a", "y">>,
      <<"d", "a", "t", "e">>,
      <<"t", "i", "m", "e">>,
      <<"t", "o", "d", "a", "y">>,
      <<"n", "o", "w">>>>

current_indicators ==
    <<<<"u", "p", "c", "o", "m", "i", "n", "g">>,
      <<"l", "a", "t", "e", "s", "t">>,
      <<"r", "e", "c", "e", "n", "t">>,
      <<"n", "e", "w">>,
      <<"c", "u", "r", "r", "e", "n", "t">>>>

search_terms ==
    <<<<"u", "p", "c", "o", "m", "i", "n", "g">>,
      <<"l", "a", "t", "e", "s", "t">>,
      <<"t", "o", "d", "a", "y">>,
      <<"c", "u", "r", "r", "e", "n", "t">>,
      <<"r", "e", "c", "e", "n", "t">>,
      <<"w", "h", "a", "t", " ", "d", "a", "y">>,
      <<"w", "h", "a", "t", " ", "t", "i", "m", "e">>>>

WhatTime == <<"w", "h", "a", "t", " ", "t", "i", "m", "e", " ", "i", "s", " ", "i", "t">>
HelloThere == <<"h", "e", "l", "l", "o", " ", "t", "h", "e", "r", "e">>

\* the user inputs should_search is called with
ClsInputs ==
    { WhatTime,
      HelloThere,
      <<"W", "h", "a", "t", " ", "D", "a", "y", " ", "i", "s", " ", "i", "t">>,
      <<"L", "a", "t", "e", "s", "t", " ", "n", "e", "w", "s">>,
      <<"I", " ", "k", "n", "o", "w">>,
      <<"h", "o", "w", " ", "a", "r", "e", " ", "y", "o", "u">> }

Filler == <<"a">>

\* the tokens the model can generate, each the text it detokenizes to
ClsVocab ==
    { <<"Y", "E", "S">>,
      <<" ", "y", "e", "s">>,
      <<"N", "O", NL>>,
      <<"N", "o">>,
      <<"Y">>,
      <<"E", "S">>,
      <<"N", "O", "T">>,
      <<" ">>,
      Filler }

RECURSIVE Detokenize(_)
\* self.model.detokenize(tokens): the tokens' texts, concatenated
Detokenize(tokens) ==
    CHOOSE text \in
        { IF Len(x) = 0 THEN <<>>
          ELSE IF Len(x) = 1 THEN x[1]
          ELSE Detokenize(SubSeq(x, 1, Len(x) \div 2))
               \o Detokenize(SubSeq(x, Len(x) \div 2 + 1, Len(x)))
          : x \in {tokens} } : TRUE

\* any(word in text for word in words)
AnyIn(words, text) == \E k \in 1..Len(words) : Contains(text, words[k])

\* a decision that looks for NO before YES
Decide_no_first(resp, input) ==
    IF Contains(resp, NO) THEN FALSE
    ELSE IF Contains(resp, YES) THEN TRUE
    ELSE AnyIn(time_indicators \o current_indicators, Lower(input))

\* the decision on response, the final upper-cased text
Decide(resp, input) ==
    IF Contains(resp, YES) THEN TRUE
    ELSE IF Contains(resp, NO) THEN FALSE
    ELSE IF AnyIn(time_indicators, Lower(input)) THEN TRUE
    ELSE IF AnyIn(current_indicators, Lower(input)) THEN TRUE
    ELSE FALSE

\* a fallback that uses the ten words of the heuristic
Fallback_ten_words(input) ==
    AnyIn(time_indicators \o current_indicators, Lower(input))

\* the except clause: any(term in user_input.lower() for term in search_terms)
Fallback(input) == AnyIn(search_terms, Lower(input))

\* an except clause that catches the errors of generate only
Handles_generate_only(call) == call = "generate"

\* "except Exception" catches what tokenize, generate and detokenize raise
Handles(call) == TRUE

\* the tokens generate can yield after those taken
NextTokens(tokens) == IF Len(tokens) < MaxPrefix THEN ClsVocab ELSE {Filler}

notClassify == <<chatVars, turnVars, genVars, sanVars, webVars>>

\* a call of should_search(user_input, context)
InitClassify ==
    /\ c_pc = "tokenize"
    /\ c_input \in ClsInputs
    /\ c_tokens = <<>>
    /\ c_i = 0
    /\ c_ret = <<>>
    /\ c_raised = FALSE
    /\ c_failed = "none"
    /\ IdleChat /\ IdleGenerate /\ IdleClean /\ IdleSearch

\* a model call raises inside the try block
CRaise(call) ==
    /\ c_failed' = call
    /\ IF Handles(call)
       THEN c_pc' = "except" /\ c_raised' = FALSE
       ELSE c_pc' = "raised" /\ c_raised' = TRUE

\* tokens = self.model.tokenize(decision_prompt)
CTokenize ==
    /\ c_pc = "tokenize"
    /\ c_pc' = "loop"
    /\ UNCHANGED <<c_input, c_tokens, c_i, c_ret, c_raised, c_failed, notClassify>>

CTokenizeRaises ==
    /\ c_pc = "tokenize"
    /\ CRaise("tokenize")
    /\ UNCHANGED <<c_input, c_tokens, c_i, c_ret, notClassify>>

\* exit tests without the safety limit
CStops_no_limit(current_text, i) ==
    \/ EndsWith(Upper(current_text), YES)
    \/ EndsWith(Upper(current_text), NO)

\* exit tests that forget the test for NO
CStops_yes_only(current_text, i) ==
    \/ EndsWith(Upper(current_text), YES)
    \/ i > ClassifyLimit

\* the loop's exit tests on current_text, for the token of index i
CStops(current_text, i) ==
    \/ EndsWith(Upper(current_text), YES)
    \/ EndsWith(Upper(current_text), NO)
    \/ i > ClassifyLimit

\* one iteration of "for i, token in enumerate(self.model.generate(...))"
CToken ==
    /\ c_pc = "loop"
    /\ \E token \in NextTokens(c_tokens) :
        \E response_tokens \in {Append(c_tokens, token)} :
        \E current_text \in {Strip(Detokenize(response_tokens))} :
            /\ c_tokens' = response_tokens
            /\ c_pc' = IF CStops(current_text, c_i) THEN "final" ELSE "loop"
    /\ c_i' = c_i + 1
    /\ UNCHANGED <<c_input, c_ret, c_raised, c_failed, notClassify>>

\* the generator ends (end of sequence): the for loop is left
CExhausted ==
    /\ c_pc = "loop"
    /\ c_pc' = "final"
    /\ UNCHANGED <<c_input, c_tokens, c_i, c_ret, c_raised, c_failed, notClassify>>

\* the generator raises instead of yielding a token
CGenerateRaises ==
    /\ c_pc = "loop"
    /\ CRaise("generate")
    /\ UNCHANGED <<c_input, c_tokens, c_i, c_ret, notClassify>>

\* a token is appended and detokenize raises on the transcript
CDetokenizeRaises ==
    /\ c_pc = "loop"
    /\ \E token \in NextTokens(c_tokens) : c_tokens' = Append(c_tokens, token)
    /\ CRaise("detokenize")
    /\ UNCHANGED <<c_input, c_i, c_ret, notClassify>>

\* response = self.model.detokenize(response_tokens).strip().upper(), decision
CDecide ==
    /\ c_pc = "final"
    /\ \E text \in {Strip(Detokenize(c_tokens))} :
       \E resp \in {Upper(text)} :
           c_ret' = <<Decide(resp, c_input)>>
    /\ c_pc' = "done"
    /\ UNCHANGED <<c_input, c_tokens, c_i, c_raised, c_failed, notClassify>>

\* the detokenize of the final text raises
CFinalRaises ==
    /\ c_pc = "final"
    /\ CRaise("detokenize")
    /\ UNCHANGED <<c_input, c_tokens, c_i, c_ret, notClassify>>

\* except Exception: the keyword fallback
CExcept ==
    /\ c_pc = "except"
    /\ c_ret' = <<Fallback(c_input)>>
    /\ c_pc' = "done"
    /\ UNCHANGED <<c_input, c_tokens, c_i, c_raised, c_failed, notClassify>>

NextClassify ==
    \/ CTokenize
    \/ CTokenizeRaises
    \/ CToken
    \/ CExhausted
    \/ CGenerateRaises
    \/ CDetokenizeRaises
    \/ CDecide
    \/ CFinalRaises
    \/ CExcept

SpecClassify == InitClassify /\ [][NextClassify]_vars

(***************************************************************************)
(* Properties of should_search, checked under SpecClassify                 *)
(***************************************************************************)
\* C4: should_search is total: whatever tokenize, generate and detokenize
\* do, raising included, no error reaches the caller and a finished call
\* has returned a boolean.
C4_ShouldSearchTotal ==
    /\ c_pc # "raised"
    /\ ~c_raised
    /\ c_pc = "done" => (Len(c_ret) = 1 /\ c_ret[1] \in BOOLEAN)

\* detokenize raised on the final text, after tokens were taken, and the call
\* returned a boolean all the same
C4_Witness ==
    /\ c_pc = "done"
    /\ c_failed = "detokenize"
    /\ Len(c_tokens) > 1
    /\ c_ret \in {<<TRUE>>, <<FALSE>>}

\* the ten words of the heuristic used when the text holds neither YES nor NO
TenWords ==
    { <<"d", "a", "y">>,
      <<"d", "a", "t", "e">>,
      <<"t", "i", "m", "e">>,
      <<"t", "o", "d", "a", "y">>,
      <<"n", "o", "w">>,
      <<"u", "p", "c", "o", "m", "i", "n", "g">>,
      <<"l", "a", "t", "e", "s", "t">>,
      <<"r", "e", "c", "e", "n", "t">>,
      <<"n", "e", "w">>,
      <<"c", "u", "r", "r", "e", "n", "t">> }

\* the final upper-cased text of the call
FinalText == Upper(Strip(Detokenize(c_tokens)))

\* C5: when no model call raised, the result is true if the final text
\* contains YES, false if it contains NO and not YES, and otherwise true
\* exactly when the lower-cased input contains one of the ten words; so
\* 'what time is it' gives true and 'hello there' gives false.
C5_DecisionRule ==
    (c_pc = "done" /\ c_failed = "none") =>
        /\ Contains(FinalText, YES) => c_ret = <<TRUE>>
        /\ (Contains(FinalText, NO) /\ ~Contains(FinalText, YES))
              => c_ret = <<FALSE>>
        /\ (~Contains(FinalText, NO) /\ ~Contains(FinalText, YES)) =>
              /\ c_ret = <<\E w \in TenWords : Contains(Lower(c_input), w)>>
              /\ c_input = WhatTime => c_ret = <<TRUE>>
              /\ c_input = HelloThere => c_ret = <<FALSE>>

\* 'what time is it' with a stream that ran to the limit without YES or NO
C5_Witness ==
    /\ c_pc = "done"
    /\ c_failed = "none"
    /\ c_input = WhatTime
    /\ Len(c_tokens) > ClassifyLimit
    /\ ~Contains(FinalText, NO)
    /\ ~Contains(FinalText, YES)
    /\ c_ret = <<TRUE>>

\* C6: should_search takes at most 20 tokens from the model's generate
\* sequence.
C6_AtMostTwentyTokens == Len(c_tokens) <= ClassifyLimit

(***************************************************************************)
(* generate_response: the streaming generator and the response clean-up    *)
(***************************************************************************)
\* the "Safety limit" of the generation loop, "if len(response_tokens) > 200"
GenLimit == 200

\* bound of the model: tokens of the stream chosen freely from the
\* vocabulary; the stream then repeats Filler until it ends
MaxGenPrefix == 2

stop_markers ==
    <<<<NL, "U", "s", "e", "r", ":">>,
      <<NL, "H", "u", "m", "a", "n", ":">>,
      <<"U", "s", "e", "r", ":">>,
      <<"H", "u", "m", "a", "n", ":">>>>

trailing_markers ==
    <<<<NL, "U", "s", "e", "r">>,
      <<NL, "H", "u", "m", "a", "n">>,
      <<"U", "s", "e", "r">>,
      <<"H", "u", "m", "a", "n">>>>

AssistantPrefix == <<"A", "s", "s", "i", "s", "t", "a", "n", "t", ":">>

ApologyPrefix ==
    <<"S", "o", "r", "r", "y", ",", " ", "I", " ", "e", "n", "c", "o", "u", "n", "t", "e", "r", "e", "d", " ", "a", "n", " ", "e", "r", "r", "o", "r", ":", " ">>

\* str(e) of an error raised by the model
ErrorText == <<"m", "o", "d", "e", "l", " ", "e", "r", "r", "o", "r">>

\* the tokens the model can generate, each the text it detokenizes to
GenVocab ==
    { <<"U", "s", "e", "r", ":">>,
      <<NL, "H", "u", "m", "a", "n", ":">>,
      <<"H", "u", "m", "a", "n", ":", " ", "a", NL, "U", "s", "e", "r", ":">>,
      <<"U", "s">>,
      <<"e", "r", ":">>,
      <<" ", "H", "i">>,
      Filler }

\* self.model.tokenize(text), one token per character: detokenize gives
\* the text back
Tokenize(text) == [k \in 1..Len(text) |-> <<text[k]>>]

\* a scan for the two markers that start with a newline only
MarkersIn_newline_only(current_text) ==
    {k \in 1..2 : Contains(current_text, stop_markers[k])}

\* the markers of stop_markers found in current_text, by position in the list
MarkersIn(current_text) ==
    {k \in 1..Len(stop_markers) : Contains(current_text, stop_markers[k])}

\* "for marker in stop_markers: if marker in current_text: split; break":
\* the text before the first occurrence of the first listed marker found
Truncate(current_text) ==
    LET first == CHOOSE k \in MarkersIn(current_text) :
                     \A j \in MarkersIn(current_text) : k <= j
    IN  SplitFirst(current_text, stop_markers[first])

RECURSIVE StripTrailing(_, _)
\* "for marker in [...]: if response.endswith(marker): cut and strip"
StripTrailing(resp, markers) ==
    IF Len(markers) = 0 THEN resp
    ELSE IF EndsWith(resp, markers[1])
         THEN StripTrailing(Strip(DropLast(resp, Len(markers[1]))),
                            Tail(markers))
         ELSE StripTrailing(resp, Tail(markers))

\* the clean-up of the response, lines 196-203
Clean(resp) ==
    LET unlabelled == IF StartsWith(resp, AssistantPrefix)
                      THEN Strip(DropFirst(resp, 10))
                      ELSE resp
    IN  StripTrailing(unlabelled, trailing_markers)

\* the tokens generate can yield after those taken: any token at the start
\* of the stream, then the filler, and at the token that reaches the limit
\* test a marker as well
GenNextTokens(raw) ==
    IF Len(raw) < MaxGenPrefix THEN GenVocab
    ELSE IF Len(raw) = GenLimit THEN {Filler, stop_markers[3]}
    ELSE {Filler}

notGenerate == <<chatVars, turnVars, clsVars, sanVars, webVars>>

\* a call of generate_response, at tokens = self.model.tokenize(prompt)
InitGenerate ==
    /\ g_pc = "tokenize"
    /\ g_tokens = <<>>
    /\ g_raw = <<>>
    /\ g_stop = FALSE
    /\ g_ret = <<>>
    /\ g_failed = FALSE
    /\ IdleChat /\ IdleClassify /\ IdleClean /\ IdleSearch

GTokenize ==
    /\ g_pc = "tokenize"
    /\ g_pc' = "loop"
    /\ UNCHANGED <<g_tokens, g_raw, g_stop, g_ret, g_failed, notGenerate>>

\* a model call raises inside the try block: except Exception returns the
\* apology
GRaise ==
    /\ g_failed' = TRUE
    /\ g_ret' = ApologyPrefix \o ErrorText
    /\ g_pc' = "done"

GTokenizeRaises ==
    /\ g_pc = "tokenize"
    /\ GRaise
    /\ UNCHANGED <<g_tokens, g_raw, g_stop, notGenerate>>

\* one iteration of "for token in self.model.generate(tokens)" in which no
\* marker is found
GToken ==
    /\ g_pc = "loop"
    /\ \E token \in GenNextTokens(g_raw) :
        \E response_tokens \in {Append(g_tokens, token)} :
        \E current_text \in {Detokenize(response_tokens)} :
            /\ MarkersIn(current_text) = {}
            /\ g_tokens' = response_tokens
            /\ g_raw' = Append(g_raw, token)
            /\ g_pc' = IF Len(response_tokens) > GenLimit
                       THEN "final" ELSE "loop"
    /\ UNCHANGED <<g_stop, g_ret, g_failed, notGenerate>>

\* one iteration in which a marker is found: the text is cut at the marker,
\* tokenized again, and the loop is left
GMarker ==
    /\ g_pc = "loop"
    /\ \E token \in GenNextTokens(g_raw) :
        \E response_tokens \in {Append(g_tokens, token)} :
        \E current_text \in {Detokenize(response_tokens)} :
            /\ MarkersIn(current_text) # {}
            /\ \E cut \in {Truncate(current_text)} : g_tokens' = Tokenize(cut)
            /\ g_raw' = Append(g_raw, token)
    /\ g_stop' = TRUE
    /\ g_pc' = "final"
    /\ UNCHANGED <<g_ret, g_failed, notGenerate>>

\* the generator ends (end of sequence): the for loop is left
GExhausted ==
    /\ g_pc = "loop"
    /\ g_pc' = "final"
    /\ UNCHANGED <<g_tokens, g_raw, g_stop, g_ret, g_failed, notGenerate>>

\* generate raises instead of yielding a token
GGenerateRaises ==
    /\ g_pc = "loop"
    /\ GRaise
    /\ UNCHANGED <<g_tokens, g_raw, g_stop, notGenerate>>

\* a token is appended and detokenize, or the tokenize of the cut text, raises
GLoopCallRaises ==
    /\ g_pc = "loop"
    /\ \E token \in GenNextTokens(g_raw) :
        /\ g_tokens' = Append(g_tokens, token)
        /\ g_raw' = Append(g_raw, token)
    /\ GRaise
    /\ UNCHANGED <<g_stop, notGenerate>>

\* response = self.model.detokenize(response_tokens).strip(), the clean-up,
\* return response
GReturn ==
    /\ g_pc = "final"
    /\ \E text \in {Detokenize(g_tokens)} :
       \E resp \in {Strip(text)} :
           g_ret' = Clean(resp)
    /\ g_pc' = "done"
    /\ UNCHANGED <<g_tokens, g_raw, g_stop, g_failed, notGenerate>>

\* the detokenize of the final transcript raises
GFinalRaises ==
    /\ g_pc = "final"
    /\ GRaise
    /\ UNCHANGED <<g_tokens, g_raw, g_stop, notGenerate>>

NextGenerate ==
    \/ GTokenize
    \/ GTokenizeRaises
    \/ GToken
    \/ GMarker
    \/ GExhausted
    \/ GGenerateRaises
    \/ GLoopCallRaises
    \/ GReturn
    \/ GFinalRaises

SpecGenerate == InitGenerate /\ [][NextGenerate]_vars

(***************************************************************************)
(* Properties of generate_response, checked under SpecGenerate             *)
(***************************************************************************)
\* the raw generated stream, as text
RawText == Detokenize(g_raw)

\* where the markers occur in a text
MarkerOffsets(text) ==
    UNION {Occurrences(text, stop_markers[k]) : k \in 1..Len(stop_markers)}

\* C7: on the hard-limit path (no marker ever appears), the transcript that
\* is detokenized into the response holds at most 200 tokens.
C7_AtMostGenLimitTokens ==
    (g_pc = "done" /\ ~g_failed /\ MarkerOffsets(RawText) = {})
        => Len(g_tokens) <= GenLimit

\* C8: when a role marker occurs in the raw stream, the returned text is
\* taken from the raw text strictly before the earliest marker occurrence
\* and contains none of the four markers.
C8_TruncatesBeforeMarker ==
    (g_pc = "done" /\ ~g_failed /\ MarkerOffsets(RawText) # {}) =>
        LET first == CHOOSE k \in MarkerOffsets(RawText) :
                         \A j \in MarkerOffsets(RawText) : k <= j
        IN  /\ MarkerOffsets(g_ret) = {}
            /\ \/ g_ret = <<>>
               \/ Contains(SubSeq(RawText, 1, first - 1), g_ret)

(***************************************************************************)
(* The response clean-up applied twice                                     *)
(***************************************************************************)
\* bound of the model: pieces a text to clean is put together from
MaxPieces == 3

Pieces ==
    { <<"A", "s", "s", "i", "s", "t", "a", "n", "t", ":">>,
      <<"U", "s", "e", "r">>,
      <<NL, "H", "u", "m", "a", "n">>,
      <<" ">>,
      <<"o", "k">> }

RECURSIVE TextsOf(_)
\* the texts put together from at most n pieces
TextsOf(n) ==
    IF n = 0 THEN {<<>>}
    ELSE TextsOf(n - 1) \cup {x \o p : x \in TextsOf(n - 1), p \in Pieces}

notClean == <<chatVars, turnVars, clsVars, genVars, webVars>>

\* response, as line 194 leaves it: detokenized and stripped
InitClean ==
    /\ s_pc = "start"
    /\ s_x \in {Strip(x) : x \in TextsOf(MaxPieces)}
    /\ s_once = <<>>
    /\ s_twice = <<>>
    /\ IdleChat /\ IdleClassify /\ IdleGenerate /\ IdleSearch

\* the clean-up of lines 196-203
CleanOnce ==
    /\ s_pc = "start"
    /\ s_once' = Clean(s_x)
    /\ s_pc' = "once"
    /\ UNCHANGED <<s_x, s_twice, notClean>>

\* the same clean-up applied to its own result
CleanTwice ==
    /\ s_pc = "once"
    /\ s_twice' = Clean(s_once)
    /\ s_pc' = "twice"
    /\ UNCHANGED <<s_x, s_once, notClean>>

NextClean == CleanOnce \/ CleanTwice

SpecClean == InitClean /\ [][NextClean]_vars

\* C9: the clean-up is idempotent: applied twice it gives what it gives
\* applied once.
C9_CleanIdempotent == s_pc = "twice" => s_twice = s_once

(***************************************************************************)
(* search_web: the SearXNG client                                          *)
(***************************************************************************)
\* search_web's default max_results
max_results == 3

\* content[:150]
SnippetLength == 150

\* bound of the model: entries of a "results" array
MaxEntries == 4

NoResults ==
    <<"N", "o", " ", "c", "u", "r", "r", "e", "n", "t", " ", "s", "e", "a", "r", "c", "h", " ", "r", "e", "s", "u", "l", "t", "s", " ", "f", "o", "u", "n", "d", ".">>

UnavailablePrefix ==
    <<"S", "e", "a", "r", "c", "h", " ", "c", "u", "r", "r", "e", "n", "t", "l", "y", " ", "u", "n", "a", "v", "a", "i", "l", "a", "b", "l", "e", ":", " ">>

ErrorPrefix == <<"S", "e", "a", "r", "c", "h", " ", "e", "r", "r", "o", "r", ":", " ">>

\* the character U+2022 that starts a summary line
Bullet == "bullet"

Ellipsis == <<".", ".", ".">>

T_title == <<"C", "l", "o", "c", "k">>

T_snippet == <<"I", "t", " ", "i", "s", " ", "6", " ", "p", "m", ".", ".", ".", " ">>

\* a snippet of more than SnippetLength characters
T_long == [k \in 1..(SnippetLength - 1) |-> "x"] \o <<" ", "y", "z">>

\* an element of "results": an object with its "title" and "content" (the
\* default "" when the field is missing), or a value that is no object
Entries ==
    { [object |-> TRUE, title |-> T_title, content |-> T_snippet],
      [object |-> TRUE, title |-> T_title, content |-> <<>>],
      [object |-> TRUE, title |-> <<>>, content |-> <<>>],
      [object |-> TRUE, title |-> <<>>, content |-> T_long],
      [object |-> FALSE, title |-> <<>>, content |-> <<>>] }

RECURSIVE EntryLists(_)
\* the arrays of at most n entries
EntryLists(n) ==
    IF n = 0 THEN {<<>>}
    ELSE EntryLists(n - 1)
         \cup {Append(xs, x) : xs \in EntryLists(n - 1), x \in Entries}

\* the body of a response: no JSON, a JSON array, or a JSON object whose
\* "results" is missing, null or an array
Bodies ==
    { [kind |-> "invalid", results |-> <<>>],
      [kind |-> "array", results |-> <<>>],
      [kind |-> "missing", results |-> <<>>],
      [kind |-> "null", results |-> <<>>] }
    \cup {[kind |-> "list", results |-> xs] : xs \in EntryLists(MaxEntries)}

\* what requests.get returns when it returns
HttpResponses ==
    {[kind |-> "response", status |-> s, body |-> b] :
        s \in {200, 404, 500}, b \in Bodies}

\* str(e) of the exceptions
ExcText(kind) ==
    CASE kind = "timeout" -> <<"t", "i", "m", "e", "d", " ", "o", "u", "t">>
      [] kind = "connection" -> <<"c", "o", "n", "n", "e", "c", "t", "i", "o", "n", " ", "r", "e", "f", "u", "s", "e", "d">>
      [] kind = "status" -> <<"b", "a", "d", " ", "s", "t", "a", "t", "u", "s">>
      [] kind = "json" -> <<"n", "o", " ", "J", "S", "O", "N">>
      [] OTHER -> <<"n", "o", " ", "a", "t", "t", "r", "i", "b", "u", "t", "e", " ", "g", "e", "t">>

RECURSIVE RemoveAll(_, _)
\* str.replace(p, ""), left to right over what follows each occurrence
RemoveAll(text, p) ==
    IF ~Contains(text, p) THEN text
    ELSE LET before == SplitFirst(text, p)
         IN  before \o RemoveAll(DropFirst(text, Len(before) + Len(p)), p)

\* the summary line of a result, none when it has no content and no title
SummaryLine(result) ==
    IF result.content # <<>>
    THEN << <<Bullet, " ">> \o result.title \o <<":", " ">>
            \o RemoveAll(Strip(TakeFirst(result.content, SnippetLength)),
                         Ellipsis) >>
    ELSE IF result.title # <<>>
    THEN << <<Bullet, " ">> \o result.title >>
    ELSE <<>>

RECURSIVE SummaryLines(_)
\* search_summary after the loop over the results
SummaryLines(results) ==
    IF Len(results) = 0 THEN <<>>
    ELSE SummaryLine(results[1]) \o SummaryLines(Tail(results))

\* a status check that passes client errors
RaisesForStatus_server_only(status) == status >= 500 /\ status < 600

\* response.raise_for_status() raises HTTPError
RaisesForStatus(status) == status >= 400 /\ status < 600

notSearch == <<chatVars, turnVars, clsVars, genVars, sanVars>>

\* a call of search_web(query), at requests.get
InitSearch ==
    /\ w_pc = "get"
    /\ w_http = [kind |-> "none"]
    /\ w_ret = <<>>
    /\ w_raised = FALSE
    /\ IdleChat /\ IdleClassify /\ IdleGenerate /\ IdleClean

\* the except clauses: a RequestException gives the unavailability string,
\* any other Exception the error string
WCatch(class, kind) ==
    /\ w_ret' = (IF class = "request" THEN UnavailablePrefix ELSE ErrorPrefix)
                \o ExcText(kind)
    /\ w_raised' = FALSE
    /\ w_pc' = "done"

\* requests.get raises: the 10 s timeout, or a network failure
WGetRaises ==
    /\ w_pc = "get"
    /\ \E kind \in {"timeout", "connection"} :
        /\ w_http' = [kind |-> kind]
        /\ WCatch("request", kind)
    /\ UNCHANGED notSearch

WGetReturns ==
    /\ w_pc = "get"
    /\ \E r \in HttpResponses : w_http' = r
    /\ w_pc' = "status"
    /\ UNCHANGED <<w_ret, w_raised, notSearch>>

\* response.raise_for_status() raises
WStatusRaises ==
    /\ w_pc = "status"
    /\ RaisesForStatus(w_http.status)
    /\ WCatch("request", "status")
    /\ UNCHANGED <<w_http, notSearch>>

WStatusOk ==
    /\ w_pc = "status"
    /\ ~RaisesForStatus(w_http.status)
    /\ w_pc' = "json"
    /\ UNCHANGED <<w_http, w_ret, w_raised, notSearch>>

\* response.json() raises: a RequestException or a ValueError, by the
\* version of requests
WJsonRaises ==
    /\ w_pc = "json"
    /\ w_http.body.kind = "invalid"
    /\ \E class \in {"request", "other"} : WCatch(class, "json")
    /\ UNCHANGED <<w_http, notSearch>>

\* the JSON value has no get: AttributeError
WNotObject ==
    /\ w_pc = "json"
    /\ w_http.body.kind = "array"
    /\ WCatch("other", "attribute")
    /\ UNCHANGED <<w_http, notSearch>>

\* results = response.json().get("results", [])
ResultsOf(body) == body.results

\* if not results: return the sentinel
WNoResults ==
    /\ w_pc = "json"
    /\ w_http.body.kind \in {"missing", "null", "list"}
    /\ ResultsOf(w_http.body) = <<>>
    /\ w_ret' = NoResults
    /\ w_pc' = "done"
    /\ UNCHANGED <<w_http, w_raised, notSearch>>

\* the loop over results[:max_results] and the join of the summary lines;
\* an entry that is no object has no get: AttributeError
WSummarise ==
    /\ w_pc = "json"
    /\ w_http.body.kind = "list"
    /\ ResultsOf(w_http.body) # <<>>
    /\ LET top == TakeFirst(ResultsOf(w_http.body), max_results)
       IN  IF \E k \in 1..Len(top) : ~top[k].object
           THEN WCatch("other", "attribute")
           ELSE /\ w_ret' = Join(SummaryLines(top), <<NL>>)
                /\ w_raised' = FALSE
                /\ w_pc' = "done"
    /\ UNCHANGED <<w_http, notSearch>>

NextSearch ==
    \/ WGetRaises
    \/ WGetReturns
    \/ WStatusRaises
    \/ WStatusOk
    \/ WJsonRaises
    \/ WNotObject
    \/ WNoResults
    \/ WSummarise

SpecSearch == InitSearch /\ [][NextSearch]_vars

(***************************************************************************)
(* Properties of search_web, checked under SpecSearch                      *)
(***************************************************************************)
\* the response has a 2xx status
StatusOk == w_http.status >= 200 /\ w_http.status < 300

MaxTurnsDetailed == 2

SearchHeader ==
    <<"C", "u", "r", "r", "e", "n", "t", " ", "w", "e", "b", " ", "s", "e", "a", "r", "c", "h", " ", "r", "e", "s", "u", "l", "t", "s", " ", "f", "o", "r", " ", "r", "e", "f", "e", "r", "e", "n", "c", "e", ":">>

UserPrompt == <<"U", "s", "e", "r", ":", " ">>

AssistantPrompt == <<NL, "A", "s", "s", "i", "s", "t", "a", "n", "t", ":">>

\* a prompt that tests search_info for emptiness only
Prompt_any_nonempty(ctx, info, input) ==
    IF info # <<>>
    THEN ctx \o SearchHeader \o <<NL>> \o info \o <<NL, NL>>
         \o UserPrompt \o input \o AssistantPrompt
    ELSE ctx \o UserPrompt \o input \o AssistantPrompt

\* "if search_info and search_info != 'No current search results found.'":
\* the two f-strings
Prompt(ctx, info, input) ==
    IF info # <<>> /\ info # NoResults
    THEN ctx \o SearchHeader \o <<NL>> \o info \o <<NL, NL>>
         \o UserPrompt \o input \o AssistantPrompt
    ELSE ctx \o UserPrompt \o input \o AssistantPrompt

\* the upper-cased, trimmed texts the classification loop can end with
ClsFinalTexts == { YES, NO, <<"A">> }

\* the model calls of should_search that can raise, "none" when none does
ClsCalls == {"none", "tokenize", "generate", "detokenize"}

\* what search_web can return: the sentinel, an empty summary (no entry
\* has a title or content), a summary, and the strings of the two except
\* clauses
SearchFailures ==
    { UnavailablePrefix \o ExcText("timeout"),
      ErrorPrefix \o ExcText("attribute") }

SearchReturns ==
    { NoResults,
      Join(SummaryLines(<<[object |-> TRUE, title |-> <<>>, content |-> <<>>]>>),
           <<NL>>),
      Join(SummaryLines(<<[object |-> TRUE, title |-> T_title,
                           content |-> T_snippet]>>), <<NL>>) }
    \cup SearchFailures

\* the detokenized texts the generation loop can end with
GenTexts ==
    { <<" ", "o", "k", " ">>,
      <<"A", "s", "s", "i", "s", "t", "a", "n", "t", ":", " ", "o", "k", NL, "U", "s", "e", "r">> }

\* a turn starts, as in the loop of turns
TReadTurn ==
    /\ Len(log) < MaxTurnsDetailed
    /\ ReadTurn

\* context = self._build_context() in chat(); the locals of the turn
\* before are dead
TContext ==
    /\ pc = "classify"
    /\ context' = _build_context(conversation)
    /\ search_info' = <<>>
    /\ prompt' = <<>>
    /\ steps' = <<"context">>
    /\ faults' = {}
    /\ pc' = "should_search"
    /\ UNCHANGED <<conversation, line, user_input, needs_search, response, log,
                   dropped, clsVars, genVars, sanVars, webVars>>

\* needs_search = self.should_search(user_input, context): the decision of
\* the final text, the fallback of the except clause when a model call
\* raises, or the error itself when the clause does not catch it, which
\* the loop's "except Exception" prints before it reads the next line
TClassify ==
    /\ pc = "should_search"
    /\ \E call \in ClsCalls, resp \in ClsFinalTexts :
        IF call = "none"
        THEN /\ needs_search' = Decide(resp, user_input)
             /\ faults' = faults
             /\ steps' = Append(steps, "classify")
             /\ pc' = "generate"
        ELSE IF Handles(call)
        THEN /\ needs_search' = Fallback(user_input)
             /\ faults' = faults \cup {"classify"}
             /\ steps' = Append(steps, "classify")
             /\ pc' = "generate"
        ELSE /\ needs_search' = needs_search
             /\ faults' = faults \cup {"classify"}
             /\ steps' = Append(steps, "classify")
             /\ pc' = "read"
    /\ UNCHANGED <<conversation, line, user_input, response, log, dropped,
                   context, search_info, prompt,
                   clsVars, genVars, sanVars, webVars>>

\* a generate_response that searches whatever use_search says
TGenContext_always_searches ==
    /\ pc = "generate"
    /\ context' = _build_context(conversation)
    /\ search_info' = <<>>
    /\ steps' = Append(steps, "context")
    /\ pc' = "search"
    /\ UNCHANGED <<conversation, line, user_input, needs_search, response, log,
                   dropped, prompt, faults, clsVars, genVars, sanVars, webVars>>

\* generate_response: context = self._build_context(); search_info = ""
TGenContext ==
    /\ pc = "generate"
    /\ context' = _build_context(conversation)
    /\ search_info' = <<>>
    /\ steps' = Append(steps, "context")
    /\ pc' = IF needs_search THEN "search" ELSE "prompt"
    /\ UNCHANGED <<conversation, line, user_input, needs_search, response, log,
                   dropped, prompt, faults, clsVars, genVars, sanVars, webVars>>

\* if use_search: search_info = self.search_web(user_input)
TSearch ==
    /\ pc = "search"
    /\ \E r \in SearchReturns :
        /\ search_info' = r
        /\ faults' = IF r \in SearchFailures THEN faults \cup {"search"}
                     ELSE faults
    /\ steps' = Append(steps, "search")
    /\ pc' = "prompt"
    /\ UNCHANGED <<conversation, line, user_input, needs_search, response, log,
                   dropped, context, prompt, clsVars, genVars, sanVars, webVars>>

\* a prompt assembly that records the user's text in the history first
TPrompt_records_user ==
    /\ pc = "prompt"
    /\ conversation' = Append(conversation, Turn(user_input, <<>>))
    /\ prompt' = Prompt(context, search_info, user_input)
    /\ steps' = Append(steps, "prompt")
    /\ pc' = "model"
    /\ UNCHANGED <<line, user_input, needs_search, response, log,
                   dropped, context, search_info, faults,
                   clsVars, genVars, sanVars, webVars>>

\* the prompt is assembled
TPrompt ==
    /\ pc = "prompt"
    /\ prompt' = Prompt(context, search_info, user_input)
    /\ steps' = Append(steps, "prompt")
    /\ pc' = "model"
    /\ UNCHANGED <<conversation, line, user_input, needs_search, response, log,
                   dropped, context, search_info, faults,
                   clsVars, genVars, sanVars, webVars>>

\* the token loop ends: response = self.model.detokenize(...).strip()
TModelReturns ==
    /\ pc = "model"
    /\ \E text \in GenTexts : response' = Strip(text)
    /\ steps' = Append(steps, "generate")
    /\ pc' = "clean"
    /\ UNCHANGED <<conversation, line, user_input, needs_search, log, dropped,
                   context, search_info, prompt, faults,
                   clsVars, genVars, sanVars, webVars>>

\* a generate_response without the except clause: the error reaches the
\* loop's "except Exception"
TModelRaises_propagates ==
    /\ pc = "model"
    /\ faults' = faults \cup {"generate"}
    /\ steps' = Append(steps, "generate")
    /\ pc' = "read"
    /\ UNCHANGED <<conversation, line, user_input, needs_search, response, log,
                   dropped, context, search_info, prompt,
                   clsVars, genVars, sanVars, webVars>>

\* a model call raises: except Exception returns the apology
TModelRaises ==
    /\ pc = "model"
    /\ response' = ApologyPrefix \o ErrorText
    /\ faults' = faults \cup {"generate"}
    /\ steps' = Append(steps, "generate")
    /\ pc' = "append"
    /\ UNCHANGED <<conversation, line, user_input, needs_search, log, dropped,
                   context, search_info, prompt,
                   clsVars, genVars, sanVars, webVars>>

\* the clean-up of the response, then return response
TClean ==
    /\ pc = "clean"
    /\ response' = Clean(response)
    /\ steps' = Append(steps, "sanitize")
    /\ pc' = "append"
    /\ UNCHANGED <<conversation, line, user_input, needs_search, log, dropped,
                   context, search_info, prompt, faults,
                   clsVars, genVars, sanVars, webVars>>

\* except KeyboardInterrupt: break, inside the calls of the turn
TInterrupt ==
    /\ pc \in {"should_search", "search", "prompt", "model", "clean"}
    /\ pc' = "done"
    /\ UNCHANGED <<conversation, line, user_input, needs_search, response, log,
                   dropped, notChat>>

NextTurn ==
    \/ ReadQuit
    \/ ReadClear
    \/ ReadBlank
    \/ TReadTurn
    \/ TContext
    \/ TClassify
    \/ TGenContext
    \/ TSearch
    \/ TPrompt
    \/ TModelReturns
    \/ TModelRaises
    \/ TClean
    \/ AppendTurn
    \/ TrimHistory
    \/ Interrupt
    \/ TInterrupt

SpecTurn == Init /\ [][NextTurn]_vars

(***************************************************************************)
(* Properties of a turn, checked under SpecTurn                            *)
(***************************************************************************)
\* the positions of the loop inside a turn, up to the append
TurnSteps ==
    {"classify", "should_search", "generate", "search", "prompt", "model",
     "clean", "append"}

Apology == ApologyPrefix \o ErrorText

\* C11: no error in classification, retrieval or generation aborts a turn:
\* a turn that has started leaves its steps only through the append (or
\* through KeyboardInterrupt, which ends the program), no step before the
\* append changes the history, the append adds exactly the one turn
\* {user: input, bot: response}, and when generation raised the response
\* is the apology that embeds the error.
C11_ErrorsNeverAbortTurn ==
    [][ /\ pc \in TurnSteps => pc' \in TurnSteps \cup {"trim", "done"}
        /\ pc \in TurnSteps \ {"append"} => conversation' = conversation
        /\ (pc = "append" /\ pc' # "done") =>
              /\ pc' = "trim"
              /\ conversation'
                   = Append(conversation, Turn(Strip(line), response))
        /\ (pc' = "append" /\ "generate" \in faults') => response' = Apology
      ]_vars

\* a turn in which the model raised during classification and again
\* during generation has been appended with the apology
C11_Witness ==
    /\ pc = "trim"
    /\ faults = {"classify", "generate"}
    /\ conversation # <<>>
    /\ conversation[Len(conversation)] = Turn(T_now, Apology)

\* C12: the history changes only in the append that follows generation
\* (and sanitization), in the trim after it, or by 'clear'; context
\* build, classification, search, prompt assembly, generation and
\* sanitization leave it unchanged, and so does an interrupt.
C12_HistoryChangesOnlyAfterTurn ==
    [][ conversation' # conversation =>
          \/ /\ pc = "append" /\ pc' = "trim"
             /\ steps # <<>>
             /\ steps[Len(steps)] \in {"generate", "sanitize"}
             /\ conversation' = Append(conversation, Turn(user_input, response))
          \/ /\ pc = "trim" /\ pc' = "read"
             /\ conversation' = LastN(conversation, Len(conversation'))
          \/ /\ pc = "read" /\ pc' = "read"
             /\ IsClear(Strip(line'))
             /\ conversation' = <<>>
      ]_vars

\* a turn has been interrupted during the search, after one completed
\* turn: the history holds that one turn
C12_Witness ==
    /\ pc = "done"
    /\ steps # <<>>
    /\ steps[Len(steps)] = "search"
    /\ Len(conversation) = 1
    /\ conversation = log

IsPrefix(a, b) == Len(a) <= Len(b) /\ a = SubSeq(b, 1, Len(a))

\* the steps of the turn, the context builds after the first left out
\* (generate_response builds the context of the unchanged history again)
StepKinds ==
    IF steps = <<>> THEN <<>>
    ELSE <<steps[1]>> \o SelectSeq(Tail(steps), LAMBDA x : x # "context")

\* the order of the steps of a turn in which the classifier decided d
TurnOrder(d) ==
    <<"context", "classify">>
    \o (IF d THEN <<"search">> ELSE <<>>)
    \o <<"prompt", "generate", "sanitize">>

SearchCalls == Len(SelectSeq(steps, LAMBDA x : x = "search"))

SearchFound ==
    /\ needs_search
    /\ SearchCalls = 1
    /\ search_info # <<>>
    /\ search_info # NoResults

\* C19: the generation prompt carries the 'Current web search results'
\* section exactly when search was requested for the turn and search_web
\* returned a non-empty string other than the no-results sentinel;
\* otherwise the prompt is the context followed by the 'User: <input>' and
\* 'Assistant:' lines. A search-unavailable string is such a string and
\* is placed in the prompt.
C19_PromptSearchSection ==
    pc \in {"model", "clean", "append", "trim"} =>
        /\ Contains(prompt, SearchHeader) <=> SearchFound
        /\ SearchFound =>
              prompt = context \o SearchHeader \o <<NL>> \o search_info
                       \o <<NL, NL>> \o UserPrompt \o user_input
                       \o AssistantPrompt
        /\ ~SearchFound =>
              prompt = context \o UserPrompt \o user_input \o AssistantPrompt
        /\ (needs_search /\ StartsWith(search_info, UnavailablePrefix)) =>
              Contains(prompt, SearchHeader \o <<NL>> \o search_info)

\* the search was unavailable and the prompt carries the string that says so
C19_Witness ==
    /\ pc = "model"
    /\ needs_search
    /\ search_info = UnavailablePrefix \o ExcText("timeout")
    /\ Contains(prompt, SearchHeader \o <<NL>> \o search_info)

\* a line that is blank or a command once trimmed, in any letter case
NoTurnLine(l) ==
    \/ Strip(l) = <<>>
    \/ Lower(Strip(l)) \in {T_quit, T_exit, T_clear}

\* C18: blank input and the commands quit, exit and clear (any letter
\* case, after trimming) never start a turn: the loop stays at input() or
\* ends, no step of a turn is taken and nothing is appended; no turn in
\* the history has a user text that is empty or equal, ignoring case, to
\* quit, exit or clear; blank input leaves the history unchanged.
C18_CommandsStartNoTurn ==
    [][ /\ (pc = "read" /\ NoTurnLine(line')) =>
              /\ pc' \in {"read", "done"}
              /\ steps' = steps
              /\ conversation' \in {conversation, <<>>}
              /\ Strip(line') = <<>> => conversation' = conversation
        /\ pc' \in TurnSteps => ~NoTurnLine(line')
        /\ \A k \in 1..Len(conversation') :
              /\ conversation'[k].user # <<>>
              /\ Lower(conversation'[k].user) \notin {T_quit, T_exit, T_clear}
      ]_vars

\* a blank line has been read after one turn, and the history still
\* holds that turn
C18_Witness ==
    /\ pc = "read"
    /\ line = <<" ", " ">>
    /\ Len(conversation) = 1
    /\ conversation = log

(***************************************************************************)
(* Properties of the classification loop and of the except clause of       *)
(* should_search, checked under SpecClassify                               *)
(***************************************************************************)
\* the trimmed text of the tokens ends, ignoring case, with YES or NO
Matched(tokens) ==
    /\ tokens # <<>>
    /\ LET text == Upper(Strip(Detokenize(tokens)))
       IN  EndsWith(text, YES) \/ EndsWith(text, NO)

\* C15: the classifier takes no further token from the model after the
\* first token at which the accumulated, trimmed text ends, ignoring case,
\* with YES or NO.
C15_StopsAtFirstMatch ==
    [][ Matched(c_tokens) => c_tokens' = c_tokens ]_vars

\* the second token completed the match (as in 'Y', 'ES' or 'a', 'No')
\* and the call returned with those two tokens
C15_Witness ==
    /\ c_pc = "done"
    /\ c_failed = "none"
    /\ Len(c_tokens) = 2
    /\ ~Matched(<<c_tokens[1]>>)
    /\ Matched(c_tokens)
    /\ c_tokens[2] = <<"N", "o">>

\* the triggers of the except clause
Triggers ==
    { <<"u", "p", "c", "o", "m", "i", "n", "g">>,
      <<"l", "a", "t", "e", "s", "t">>,
      <<"t", "o", "d", "a", "y">>,
      <<"c", "u", "r", "r", "e", "n", "t">>,
      <<"r", "e", "c", "e", "n", "t">>,
      <<"w", "h", "a", "t", " ", "d", "a", "y">>,
      <<"w", "h", "a", "t", " ", "t", "i", "m", "e">> }

IKnow == <<"I", " ", "k", "n", "o", "w">>

\* C17: when a model call inside should_search raises, the result is true
\* exactly when the lower-cased input contains one of the triggers
\* upcoming, latest, today, current, recent, 'what day', 'what time'; the
\* ten-word heuristic is not used: 'I know', which holds the word 'now',
\* gives false.
C17_FallbackRule ==
    (c_pc = "done" /\ c_failed # "none") =>
        /\ c_ret = <<\E w \in Triggers : Contains(Lower(c_input), w)>>
        /\ c_input = IKnow => c_ret = <<FALSE>>

\* generate raised for the input 'I know', which the ten-word heuristic
\* would accept, and the call returned false
C17_Witness ==
    /\ c_pc = "done"
    /\ c_failed = "generate"
    /\ c_input = IKnow
    /\ \E w \in TenWords : Contains(Lower(c_input), w)
    /\ c_ret = <<FALSE>>

(***************************************************************************)
(* Properties of the generation loop, checked under SpecGenerate           *)
(***************************************************************************)
\* C16: the response generator takes no further token from the model
\* after the first token at which the detokenized text contains one of the
\* four role markers: whenever the loop is about to take a token, the
\* text of the tokens taken so far holds no marker. When a marker matched
\* the loop is left by the marker, whatever the number of tokens: the
\* 200-token test decides only when none did.
C16_StopsAtFirstMarker ==
    /\ g_pc = "loop" => MarkerOffsets(RawText) = {}
    /\ g_stop => (g_pc \in {"final", "done"} /\ MarkerOffsets(RawText) # {})
    /\ (g_pc \in {"final", "done"} /\ ~g_failed /\ ~g_stop)
          => MarkerOffsets(RawText) = {}

\* the token that takes the transcript past 200 tokens carries a marker:
\* the loop is left by the marker and the text cut before it is returned
C16_Witness ==
    /\ g_pc = "done"
    /\ ~g_failed
    /\ g_stop
    /\ Len(g_raw) = GenLimit + 1
    /\ MarkerOffsets(Detokenize(SubSeq(g_raw, 1, GenLimit))) = {}
    /\ Len(g_ret) = GenLimit

(***************************************************************************)
(* The two token loops over a stream that never ends and never raises.     *)
(* The interpreter runs one thread and every model call returns, so a      *)
(* step that can be taken is taken: weak fairness of the next step.        *)
(***************************************************************************)
\* bounds of the model: tokens a stream may be asked for, above what the
\* loops take
MaxClsStream == 24
MaxGenStream == 203

\* a call of should_search or a call of generate_response, at its tokenize
InitLoops ==
    \/ /\ InitClassify
       /\ c_input = HelloThere
    \/ InitGenerate

\* the classification loop takes the next token of the endless stream
LClsToken ==
    /\ Len(c_tokens) < MaxClsStream
    /\ CToken

\* the generation loop takes the next token of the endless stream
LGenToken ==
    /\ Len(g_raw) < MaxGenStream
    /\ (GToken \/ GMarker)

NextLoops ==
    \/ CTokenize
    \/ LClsToken
    \/ CDecide
    \/ GTokenize
    \/ LGenToken
    \/ GReturn

SpecLoops == InitLoops /\ [][NextLoops]_vars /\ WF_vars(NextLoops)

\* C14: both token loops terminate: over a generate sequence that never
\* ends (and so also over one that never yields YES, NO or a role marker)
\* should_search and generate_response each eventually stop taking tokens
\* and return.
C14_LoopsTerminate ==
    /\ (c_pc = "tokenize") ~> (c_pc = "done")
    /\ (g_pc = "tokenize") ~> (g_pc = "done")

\* generate_response has returned after 201 tokens without a marker
C14_Witness ==
    /\ g_pc = "done"
    /\ ~g_stop
    /\ Len(g_raw) = GenLimit + 1
    /\ MarkerOffsets(RawText) = {}

====
